---- MODULE Spec2Model ----
(***************************************************************************)
(* Model of the author-profile aggregation engine (src/search.py) and of   *)
(* the tool facade in front of it (src/server.py).                         *)
(*                                                                         *)
(* Text is modelled as sequences of one-character strings, so that         *)
(* lower(), split() and join() are computed rather than assumed.  A Python *)
(* dict is a sequence of entries in insertion order with unique keys.      *)
(***************************************************************************)
EXTENDS Integers, Sequences, FiniteSets, TLC

VARIABLES
    pin,          \* pure operations: the input drawn for this run
    pout,         \* pure operations: what the operation returned
    ppc,          \* pure operations: "in" before, "out" after the call
    now,          \* time.time(), in ticks since the engine was constructed
    rate_limits,  \* self.rate_limits: per source [calls, reset_time]
    rl_max,       \* rate limiter runs: the max_calls the callers pass
    rl_window,    \* rate limiter runs: the window the callers pass
    rlc,          \* rate limiter runs: where each caller is in the check
    rl_returns,   \* rate limiter runs: per source, the calls that returned
    rl_started,   \* rate limiter runs: calls begun so far
    cache,        \* self.cache: cache key -> stored result
    session,      \* self.session and the ClientSession objects made so far
    requests,     \* session runs: the object each caller's request is on
    net_calls,    \* requests issued so far, per source
    returned,     \* history: (cached operation, query) -> how its calls ended
    inv,          \* the invocations in flight or just ended, per slot
    started       \* invocations begun so far

purevars == <<pin, pout, ppc>>

rlvars == <<now, rate_limits, rl_max, rl_window, rlc, rl_returns, rl_started>>

engvars == <<cache, session, net_calls, returned, inv, started>>

\* What the pure operations, the rate limiter runs and the engine runs
\* leave alone.
notpure == <<now, rate_limits, rl_max, rl_window, rlc, rl_returns, rl_started,
             cache, session, requests, net_calls, returned, inv, started>>

notrl == <<pin, pout, ppc, cache, session, requests, net_calls, returned, inv,
           started>>

noteng == <<pin, pout, ppc, now, rl_max, rl_window, rlc, rl_returns, rl_started,
            requests>>

vars == <<pin, pout, ppc, now, rate_limits, rl_max, rl_window, rlc,
          rl_returns, rl_started, cache, session, requests, net_calls,
          returned, inv, started>>

(***************************************************************************)
(* Text helpers: str.lower(), str.split(), ' '.join().                     *)
(***************************************************************************)
LowerAlpha == <<"a","b","c","d","e","f","g","h","i","j","k","l","m",
                "n","o","p","q","r","s","t","u","v","w","x","y","z">>

UpperAlpha == <<"A","B","C","D","E","F","G","H","I","J","K","L","M",
                "N","O","P","Q","R","S","T","U","V","W","X","Y","Z">>

\* str.split() without arguments splits on runs of any whitespace.
Whitespace == {" ", "\t", "\n"}

LowerChar(c) ==
    IF \E i \in DOMAIN UpperAlpha : UpperAlpha[i] = c
    THEN LowerAlpha[CHOOSE i \in DOMAIN UpperAlpha : UpperAlpha[i] = c]
    ELSE c

\* s.lower()
Lower(s) == [i \in DOMAIN s |-> LowerChar(s[i])]

\* s.split(): the maximal runs of non-whitespace characters, in order.
\* TokenStarts are the positions where a run begins, TokenEnd(s, i) the
\* position where the run that begins at i ends.
TokenStarts(s) ==
    { i \in DOMAIN s : s[i] \notin Whitespace
                       /\ (i = 1 \/ s[i - 1] \in Whitespace) }

TokenEnd(s, i) ==
    CHOOSE j \in i..Len(s) :
        /\ \A k \in i..j : s[k] \notin Whitespace
        /\ (j = Len(s) \/ s[j + 1] \in Whitespace)

Split(s) ==
    LET starts == TokenStarts(s)
    IN [k \in 1..Cardinality(starts) |->
          LET i == CHOOSE i \in starts :
                       Cardinality({j \in starts : j <= i}) = k
          IN SubSeq(s, i, TokenEnd(s, i))]

\* ' '.join(tokens)
RECURSIVE Join(_)
Join(tokens) ==
    IF tokens = <<>> THEN <<>>
    ELSE IF Len(tokens) = 1 THEN tokens[1]
    ELSE tokens[1] \o <<" ">> \o Join(Tail(tokens))

\* ' '.join(name.split()): the case is kept.
NormalizeKeepCase(name) == Join(Split(name))

\* AuthorSearchEngine._normalize_author_name
normalize_author_name(name) == Join(Split(Lower(name)))

(***************************************************************************)
(* Raw records of the paper source.  An author record is                   *)
(*   [name, affiliations, papers, shape]                                   *)
(* where shape tells how the 'papers' field came back: "ok" (a list),      *)
(* "absent" (no such key) or "null" (the key holds no list, on which the   *)
(* iteration of the code raises).  A paper is [authors, title, venue,      *)
(* shape], shape "null" standing for a title that is not text.  An author  *)
(* mention is its display name; the empty name is a missing name.  The     *)
(* authorId of a mention is copied by the code into a field that no        *)
(* operation reads, and is left out.                                       *)
(***************************************************************************)
Paper(authors, title, venue) ==
    [authors |-> authors, title |-> title, venue |-> venue, shape |-> "ok"]

AuthorRecord(name, affiliations, papers) ==
    [name |-> name, affiliations |-> affiliations, papers |-> papers,
     shape |-> "ok"]

\* Position of the entry of dict d (a sequence of entries) whose field
\* 'key' is k, or 0.
KeyIndex(d, k) ==
    IF \E i \in DOMAIN d : d[i].key = k
    THEN CHOOSE i \in DOMAIN d : d[i].key = k
    ELSE 0

\* One step of the inner loop of _extract_coauthors_from_semantic_scholar:
\* fold the mention 'author' into the dict keyed by normalized name.
ExtractMention(coauthors, author) ==
    IF author = <<>>
    THEN coauthors
    ELSE LET name == normalize_author_name(author)
             at   == KeyIndex(coauthors, name)
         IN IF at = 0
            THEN Append(coauthors,
                        [key |-> name, name |-> author,
                         collaborations |-> 1,
                         source |-> "semantic_scholar"])
            ELSE [coauthors EXCEPT ![at].collaborations = @ + 1]

RECURSIVE ExtractAuthors(_, _)
ExtractAuthors(coauthors, authors) ==
    IF authors = <<>> THEN coauthors
    ELSE ExtractAuthors(ExtractMention(coauthors, Head(authors)), Tail(authors))

RECURSIVE ExtractPapers(_, _)
ExtractPapers(coauthors, papers) ==
    IF papers = <<>> THEN coauthors
    ELSE ExtractPapers(ExtractAuthors(coauthors, Head(papers).authors),
                       Tail(papers))

\* Whether the extraction raises on this record ('papers' present but not
\* iterable).
ExtractRaises(author_data) == author_data.shape = "null"

\* AuthorSearchEngine._extract_coauthors_from_semantic_scholar:
\* list(coauthors.values()), the entries in insertion order.
extract_coauthors_from_semantic_scholar(author_data) ==
    IF author_data.shape = "absent"
    THEN <<>>
    ELSE ExtractPapers(<<>>, author_data.papers)

(***************************************************************************)
(* Fusion: _merge_author_data.  The merged profile is                      *)
(*   [raised, names, institutions, coauthors]                              *)
(* with coauthors the dict of the code in insertion order; its key is the  *)
(* 'name' field of the extracted entry (search.py line 231).  raised tells *)
(* that the code left the function by an exception.                        *)
(***************************************************************************)
EmptyMerged ==
    [raised |-> FALSE, names |-> {}, institutions |-> {}, coauthors |-> <<>>]

\* Lines 230-235 as a plain overwrite of an entry that is already there.
MergeCoauthorOverwrite(coauthors, coauthor) ==
    LET name == coauthor.name
        at   == KeyIndex(coauthors, name)
    IN IF at = 0
       THEN Append(coauthors, [coauthor EXCEPT !.key = name])
       ELSE [coauthors EXCEPT ![at] = [coauthor EXCEPT !.key = name]]

\* Lines 230-235: upsert one extracted entry into merged['coauthors'].
MergeCoauthor(coauthors, coauthor) ==
    LET name == coauthor.name
        at   == KeyIndex(coauthors, name)
    IN IF at = 0
       THEN Append(coauthors, [coauthor EXCEPT !.key = name])
       ELSE [coauthors EXCEPT
               ![at].collaborations = @ + coauthor.collaborations]

RECURSIVE MergeCoauthors(_, _)
MergeCoauthors(coauthors, extracted) ==
    IF extracted = <<>> THEN coauthors
    ELSE MergeCoauthors(MergeCoauthor(coauthors, Head(extracted)),
                        Tail(extracted))

\* Lines 222-235: one item of one source folded into the profile.
MergeItem(merged, source, item) ==
    IF merged.raised \/ source # "semantic_scholar"
    THEN merged
    ELSE IF ExtractRaises(item)
         THEN [merged EXCEPT
                 !.raised = TRUE,
                 !.names = @ \cup {item.name[i] : i \in DOMAIN item.name},
                 !.institutions =
                     @ \cup {item.affiliations[i] : i \in DOMAIN item.affiliations}]
         ELSE [merged EXCEPT
                 !.names = @ \cup {item.name[i] : i \in DOMAIN item.name},
                 !.institutions =
                     @ \cup {item.affiliations[i] : i \in DOMAIN item.affiliations},
                 !.coauthors =
                     MergeCoauthors(@, extract_coauthors_from_semantic_scholar(item))]

RECURSIVE MergeItems(_, _, _)
MergeItems(merged, source, data_list) ==
    IF data_list = <<>> THEN merged
    ELSE MergeItems(MergeItem(merged, source, Head(data_list)), source,
                    Tail(data_list))

\* Lines 220-235; `for item in data_list` raises when data_list is not
\* iterable, whatever the source.
RECURSIVE MergeSources(_, _)
MergeSources(merged, data_sources) ==
    IF data_sources = <<>> THEN merged
    ELSE IF ~Head(data_sources).iterable
         THEN [merged EXCEPT !.raised = TRUE]
         ELSE MergeSources(MergeItems(merged, Head(data_sources).source,
                                      Head(data_sources).data),
                           Tail(data_sources))

\* AuthorSearchEngine._merge_author_data; data_sources is a sequence of
\* [source, data, iterable], iterable telling whether data is a list.
merge_author_data(data_sources) == MergeSources(EmptyMerged, data_sources)

(***************************************************************************)
(* get_coauthors, lines 253-272: the successful subset of the fan-out, the *)
(* final format and the sort.                                              *)
(***************************************************************************)
\* The adapters of the fan-out, in the order of the task list (246-250).
FanoutSources == <<"semantic_scholar", "openalex", "crossref">>

\* An adapter outcome as asyncio.gather(return_exceptions=True) hands it
\* over: an exception, or the list the adapter returned.
Failed == [kind |-> "exception", data |-> <<>>]

Returned(data) == [kind |-> "list", data |-> data]

\* An adapter that returned a number other than 0 (lines 126, 141, 153
\* return whatever the payload holds under the key).
ReturnedNumber == [kind |-> "number", data |-> <<>>]

\* bool(result) in line 256.
Truthy(result) == result.kind = "number" \/ result.data # <<>>

\* Lines 255-257: keep the results that are no exception and not empty.
RECURSIVE CollectSources(_, _)
CollectSources(results, i) ==
    IF i > Len(FanoutSources) THEN <<>>
    ELSE LET result == results[FanoutSources[i]]
         IN (IF result.kind # "exception" /\ Truthy(result)
             THEN <<[source |-> FanoutSources[i], data |-> result.data,
                     iterable |-> result.kind = "list"]>>
             ELSE <<>>)
            \o CollectSources(results, i + 1)

\* Lines 263-269.
FinalFormat(coauthors) ==
    [i \in DOMAIN coauthors |->
        [name |-> coauthors[i].name,
         collaborations |-> coauthors[i].collaborations,
         source |-> coauthors[i].source]]

\* Insertion of x behind every element that does not sort after it: the
\* order list.sort(key, reverse=True) keeps among equal keys.
RECURSIVE InsertStable(_, _)
InsertStable(sorted, x) ==
    IF sorted = <<>> THEN <<x>>
    ELSE IF Head(sorted).collaborations >= x.collaborations
         THEN <<Head(sorted)>> \o InsertStable(Tail(sorted), x)
         ELSE <<x>> \o sorted

\* Insertion of x in front of its equals: a sort that is not stable.
RECURSIVE InsertUnstable(_, _)
InsertUnstable(sorted, x) ==
    IF sorted = <<>> THEN <<x>>
    ELSE IF Head(sorted).collaborations > x.collaborations
         THEN <<Head(sorted)>> \o InsertUnstable(Tail(sorted), x)
         ELSE <<x>> \o sorted

RECURSIVE SortFrom(_, _)
SortFrom(sorted, rest) ==
    IF rest = <<>> THEN sorted
    ELSE SortFrom(InsertStable(sorted, Head(rest)), Tail(rest))

RECURSIVE SortFromUnstable(_, _)
SortFromUnstable(sorted, rest) ==
    IF rest = <<>> THEN sorted
    ELSE SortFromUnstable(InsertUnstable(sorted, Head(rest)), Tail(rest))

SortUnstable(coauthors) == SortFromUnstable(<<>>, coauthors)

\* Line 272: coauthors.sort(key=lambda x: x['collaborations'], reverse=True)
SortByCollaborations(coauthors) == SortFrom(<<>>, coauthors)

\* Lines 253-272 of get_coauthors on the joined results: the outcome is
\* [raised, value].
CoauthorsOutcome(results) ==
    LET merged_data == merge_author_data(CollectSources(results, 1))
    IN IF merged_data.raised
       THEN [raised |-> TRUE, value |-> <<>>]
       ELSE [raised |-> FALSE,
             value |-> SortByCollaborations(FinalFormat(merged_data.coauthors))]

(***************************************************************************)
(* Keyword aggregation: get_author_keywords, lines 285-303.  The Counter   *)
(* is a dict [key, count] in first-seen order.                             *)
(***************************************************************************)
\* Line 296: the words the filter drops whatever their length.
StopWords ==
    { <<"t","h","e">>, <<"a","n","d">>, <<"f","o","r">>,
      <<"w","i","t","h">>, <<"f","r","o","m">>, <<"t","h","a","t">>,
      <<"t","h","i","s">> }

\* Line 296: len(w) > 3.
MinWordLen == 3

\* Line 302: most_common(20).
TopKeywords == 20

\* Line 335: extracted_keywords[:10].
FallbackLimit == 10

\* Line 296 on one word.
KeepWord(w) == Len(w) > MinWordLen /\ w \notin StopWords

\* Line 294: title.lower().split() + venue.lower().split()
PaperWords(paper) == Split(Lower(paper.title)) \o Split(Lower(paper.venue))

\* Lines 294-296: the words of one paper that pass the filter.
FilteredWords(paper) == SelectSeq(PaperWords(paper), KeepWord)

\* The filtered words of the papers of one record, and of the records of
\* the list, in the order in which line 297 counts them.
RECURSIVE WordsOfPapers(_)
WordsOfPapers(papers) ==
    IF papers = <<>> THEN <<>>
    ELSE (IF Head(papers).shape = "null" THEN <<>>
          ELSE FilteredWords(Head(papers)))
         \o WordsOfPapers(Tail(papers))

RECURSIVE WordsOfAuthors(_)
WordsOfAuthors(semantic_data) ==
    IF semantic_data = <<>> THEN <<>>
    ELSE (IF Head(semantic_data).shape = "ok"
          THEN WordsOfPapers(Head(semantic_data).papers) ELSE <<>>)
         \o WordsOfAuthors(Tail(semantic_data))

\* Whether the loop of lines 287-297 raises: a record whose 'papers' is
\* no list, or a paper whose title is no text.
CountRaises(semantic_data) ==
    \E a \in DOMAIN semantic_data :
        \/ semantic_data[a].shape = "null"
        \/ /\ semantic_data[a].shape = "ok"
           /\ \E p \in DOMAIN semantic_data[a].papers :
                semantic_data[a].papers[p].shape = "null"

\* Counter.update over the words: one entry per distinct word, in the
\* order of first sight, with the number of its occurrences.
CountWords(words) ==
    LET first == { i \in DOMAIN words : \A j \in 1..(i - 1) : words[j] # words[i] }
    IN [k \in 1..Cardinality(first) |->
          LET i == CHOOSE i \in first : Cardinality({j \in first : j <= i}) = k
          IN [key |-> words[i],
              count |-> Cardinality({j \in DOMAIN words : words[j] = words[i]})]]

\* sorted(items, key=count, reverse=True), which most_common cuts: by
\* descending count, entries of equal count in their order in the Counter.
SortByCount(keywords) ==
    LET Before(j, i) ==
            \/ keywords[j].count > keywords[i].count
            \/ keywords[j].count = keywords[i].count /\ j < i
        Rank(i) == Cardinality({j \in DOMAIN keywords : Before(j, i)}) + 1
    IN [r \in DOMAIN keywords |->
          keywords[CHOOSE i \in DOMAIN keywords : Rank(i) = r]]

\* The first n elements of s: s[:n].
Prefix(s, n) == SubSeq(s, 1, IF Len(s) < n THEN Len(s) ELSE n)

\* most_common that cuts before it sorts: the first n keys seen.
MostCommonFirstSeen(keywords, n) == Prefix(keywords, n)

\* Counter.most_common(n)
MostCommon(keywords, n) == Prefix(SortByCount(keywords), n)

\* Lines 285-303 of get_author_keywords on the adapter's list: the outcome
\* is [raised, value].
KeywordsOutcome(semantic_data) ==
    LET top == MostCommon(CountWords(WordsOfAuthors(semantic_data)), TopKeywords)
    IN IF CountRaises(semantic_data)
       THEN [raised |-> TRUE, value |-> <<>>]
       ELSE [raised |-> FALSE,
             value |-> [i \in DOMAIN top |->
                          [keyword |-> top[i].key, frequency |-> top[i].count]]]

\* Lines 333-335 with the cut left out.
FallbackTermsUncut(fallback_keywords) ==
    [i \in DOMAIN fallback_keywords |-> fallback_keywords[i].keyword]

\* Lines 333-335 of get_author_keywords_from_scholar: the terms of the
\* fallback list, the first ten of them.
FallbackTerms(fallback_keywords) ==
    Prefix([i \in DOMAIN fallback_keywords |-> fallback_keywords[i].keyword],
           FallbackLimit)

(***************************************************************************)
(* The rate limiter: _rate_limit_check, lines 63-74.  Time is counted in   *)
(* ticks of 30 seconds from the construction of the engine.                *)
(***************************************************************************)
\* The keys of self.rate_limits (lines 24-30).
Sources == {"semantic_scholar", "openalex", "crossref", "arxiv", "pubmed"}

\* Line 72: the sleep is capped at 60 seconds, two ticks.
SleepCap == 2

\* Lines 24-30: no calls yet, the window starts at construction.
InitialRateLimits(t) == [api \in Sources |-> [calls |-> 0, reset_time |-> t]]

Min(a, b) == IF a < b THEN a ELSE b

\* Lines 66-67 with a window that runs out at reset_time + window already.
WindowResetInclusive(limit, t, window) ==
    IF t - limit.reset_time >= window
    THEN [calls |-> 0, reset_time |-> t]
    ELSE limit

\* Lines 66-67: a window that has run out is replaced by a fresh one.
WindowReset(limit, t, window) ==
    IF t - limit.reset_time > window
    THEN [calls |-> 0, reset_time |-> t]
    ELSE limit

\* Line 70.
SleepTime(limit, t, window) == window - (t - limit.reset_time)

\* Lines 69-71: whether the call sleeps before it goes on.
MustSleep(limit, t, max_calls, window) ==
    limit.calls >= max_calls /\ SleepTime(limit, t, window) > 0

\* Line 72 without the cap: the sleep lasts to the end of the window.
SleepWholeWindow(limit, t, window) == SleepTime(limit, t, window)

\* Line 72: how long it sleeps.
SleepFor(limit, t, window) == Min(SleepTime(limit, t, window), SleepCap)

\* Line 74 as two callers that slept on a full window would write it if
\* each wrote the count it read before its sleep, plus one.
CountCallStale(limit) ==
    [limit EXCEPT !.calls = IF @ > rl_max THEN @ ELSE @ + 1]

\* Line 74.
CountCall(limit) == [limit EXCEPT !.calls = @ + 1]

\* Concurrent callers of _rate_limit_check.
NumCallers == 2

Callers == 1..NumCallers

\* The sources the callers of these runs call on.
CalledSources == {"semantic_scholar", "openalex"}

IdleCaller == [pc |-> "idle", api |-> "none", wake |-> 0]

RateLimitIdle ==
    /\ now = 0
    /\ rate_limits = InitialRateLimits(0)
    /\ rl_max = 0 /\ rl_window = 0
    /\ rlc = [c \in Callers |-> IdleCaller]
    /\ rl_returns = [api \in Sources |-> <<>>]
    /\ rl_started = 0

\* A word of four letters, one for each letter of the alphabet.
TopWord(i) == <<"t", "o", "p", LowerAlpha[i]>>

\* "topa topb ... topv": more distinct words than most_common keeps.
BigTitle ==
    [q \in 1..(5 * (TopKeywords + 2) - 1) |->
       IF q % 5 = 0 THEN " " ELSE TopWord((q \div 5) + 1)[q % 5]]

\* What an adapter whose records the fusion does not read may hand over:
\* a failure, nothing, or one record (with a co-author mention in it).
OtherItem == AuthorRecord(<<<<"b">>>>, <<>>, <<Paper(<<<<"b">>>>, <<>>, <<>>)>>)

OtherOutcomes == { Failed, Returned(<<>>), Returned(<<OtherItem>>) }

(***************************************************************************)
(* The engine: cache, session, adapters and the invocations of its         *)
(* operations.  A query is [name, surname, institution, field]; an         *)
(* optional field that is None is the empty text.                          *)
(***************************************************************************)
\* Slots in which invocations run concurrently on the one event loop.
NumSlots == 2

\* Invocations begun in one run.
MaxInvocations == 2

Slots == 1..NumSlots

\* Lines 119, 131, 146: the max_calls the adapters of the fan-out pass.
AdapterMaxCalls == 100

\* Line 63: the default window of 3600 seconds, in ticks of 30 seconds.
AdapterWindow == 120

\* _get_cache_key: the digest of the text of the argument tuple, which
\* tells two tuples apart exactly when they differ.
get_cache_key(args) == args

CoauthorsKey(q) ==
    get_cache_key(<<"coauthors", q.name, q.surname, q.institution, q.field>>)

KeywordsKey(q) ==
    get_cache_key(<<"keywords", q.name, q.surname, q.institution>>)

\* Line 310 with the operation name of get_author_keywords, whose entry the
\* fallback writes.
ScholarKeyOfKeywords(q) ==
    get_cache_key(<<"keywords", q.name, q.surname, q.institution>>)

ScholarKey(q) ==
    get_cache_key(<<"scholar_keywords", q.name, q.surname, q.institution>>)

\* A store that is forgotten.
CacheStoreNothing(c, key, value) == c

\* self.cache[cache_key] = value
CacheStore(c, key, value) ==
    [k \in DOMAIN c \cup {key} |-> IF k = key THEN value ELSE c[k]]

\* self.session after __init__ (line 22): no object (id 0), none made, none
\* closed.  The objects are numbered in the order of their construction.
NoSession == [id |-> 0, made |-> 0, closed |-> {}]

\* aiohttp.ClientSession(...) assigned to self.session (lines 49-52, 92-95,
\* 164).
NewSession(sess) == [sess EXCEPT !.id = sess.made + 1, !.made = sess.made + 1]

\* The requests go out on self.session, which the first of them creates
\* (lines 78-95, 163-164, 342-359, 414-431).
SessionAfterRequest(sess) == IF sess.id = 0 THEN NewSession(sess) ELSE sess

\* An adapter's way to its request: _rate_limit_check, which with fewer
\* than max_calls calls in the window only counts the call, then the
\* request itself.
AdapterLimits(limits, apis, t) ==
    [api \in DOMAIN limits |->
        IF api \in apis
        THEN CountCall(WindowReset(limits[api], t, AdapterWindow))
        ELSE limits[api]]

CountRequests(calls, apis) ==
    [api \in DOMAIN calls |-> IF api \in apis THEN calls[api] + 1 ELSE calls[api]]

\* The queries of the runs: one author, asked for without and with an
\* institution.
RootQueries ==
    { [name |-> <<"a">>, surname |-> <<"b">>, institution |-> inst,
       field |-> <<>>] : inst \in { <<>>, <<"i">> } }

\* What the paper source may answer: a failure, no record, a record with
\* one paper (three mentions, two of them of one author, and a title of
\* more words than the keyword list keeps), or a record whose papers are
\* no list.
ListAB ==
    << AuthorRecord(<< <<"a"," ","b">> >>, << <<"u">> >>,
         << Paper(<< <<"a"," ","b">>, <<"c"," ","d">>, <<"C"," ","d">> >>,
                  BigTitle, <<>>) >>) >>

ListNull ==
    << [name |-> <<>>, affiliations |-> <<>>, papers |-> <<>>, shape |-> "null"] >>

PaperSourceOutcomes ==
    { Failed, Returned(<<>>), Returned(ListAB), Returned(ListNull) }

AdapterOutcomes(api) ==
    IF api = "semantic_scholar" THEN PaperSourceOutcomes ELSE OtherOutcomes

NoOutcome == [raised |-> FALSE, value |-> <<>>]

NoPrior == [done |-> FALSE, value |-> <<>>, nothing |-> FALSE]

NoEnvelope == [success |-> FALSE, error |-> "none", items |-> <<>>]

NoQuery == [name |-> <<>>, surname |-> <<>>, institution |-> <<>>, field |-> <<>>]

\* The progress of get_second_degree_network: the first-degree list, the
\* place in it, the network so far (a dict keyed by normalized name, in
\* insertion order), the running total of second-degree entries and the
\* lookups made beyond the root.
NoNetwork ==
    [max_connections |-> 0, stage |-> "none", first |-> <<>>, idx |-> 0,
     network |-> <<>>, total |-> 0, lookups |-> 0]

\* A slot: the operation op on query q at step pc; cop and cq are the
\* cached operation (get_coauthors or get_author_keywords) it runs or ran
\* last, with what that call's fan-out brought ("none" without a fan-out,
\* "nothing" when every adapter failed or returned no record, else
\* "some"), whether an equal call had returned before it began and what
\* (cprior), the requests it issued (cissued) and its outcome (cdone,
\* cout); net is the progress of a network call; fell_back tells a scholar
\* call that took its except branch, slept_at when its sleep began; out
\* and env are what the operation and the tool around it returned.
IdleSlot ==
    [op |-> "none", q |-> NoQuery, pc |-> "idle",
     cop |-> "none", cq |-> NoQuery,
     fanout |-> "none",
     cprior |-> NoPrior, cissued |-> 0, cdone |-> FALSE, cout |-> NoOutcome,
     fell_back |-> FALSE, slept_at |-> 0, net |-> NoNetwork,
     out |-> NoOutcome, env |-> NoEnvelope]

EngineIdle ==
    /\ cache = [k \in {} |-> <<>>]
    /\ session = NoSession
    /\ requests = [c \in Callers |-> 0]
    /\ net_calls = [api \in Sources \cup {"google_scholar"} |-> 0]
    /\ returned = [k \in {} |-> <<>>]
    /\ inv = [p \in Slots |-> IdleSlot]
    /\ started = 0

\* server.py lines 47-53 with an empty list reported as a failure.
CoauthorsEnvelopeEmptyIsError(outcome) ==
    IF outcome.raised \/ outcome.value = <<>>
    THEN [success |-> FALSE, error |-> "raised", items |-> <<>>]
    ELSE [success |-> TRUE, total |-> Len(outcome.value), items |-> outcome.value]

\* server.py lines 36-61: the envelope of the coauthors tool.
CoauthorsEnvelope(outcome) ==
    IF outcome.raised
    THEN [success |-> FALSE, error |-> "raised", items |-> <<>>]
    ELSE [success |-> TRUE, total |-> Len(outcome.value), items |-> outcome.value]

\* server.py lines 80-103: the envelope of the keywords tool.
KeywordsEnvelope(outcome) ==
    IF outcome.raised
    THEN [success |-> FALSE, error |-> "raised", items |-> <<>>]
    ELSE [success |-> TRUE, total |-> Len(outcome.value), items |-> outcome.value]

\* What an equal call that returned earlier gave back, if there was one.
PriorOf(key) ==
    IF key \in DOMAIN returned THEN returned[key] ELSE NoPrior

(***************************************************************************)
(* Bounded inputs of the pure operations.  The list of author records an   *)
(* operation is applied to is built record by record, paper by paper and   *)
(* mention by mention; its size is one per record, per paper and per       *)
(* mention.                                                                *)
(***************************************************************************)
\* Largest size of the paper source's list in a fan-out input.
MaxFanoutSize == 6

\* Largest joint size of the two lists of a merge-order input.
MaxPairSize == 7

\* Largest size (records plus papers) of a keyword input.
MaxKeywordSize == 4

\* Display names of the mentions: two spellings of one name, and two more.
MentionNames == { <<"A">>, <<"a">>, <<"b">>, <<"c">> }

Titles ==
    { <<>>, BigTitle,
      <<"D","e","e","p"," ","D","A","T","A"," ","w","i","t","h"," ",
        "t","h","e"," ","n","e","t">> }

Venues ==
    { <<>>,
      <<"t","o","p","v"," "," ","T","o","p","v"," ","d","a","t","a">> }

NullPaper ==
    [authors |-> <<>>, title |-> <<>>, venue |-> <<>>, shape |-> "null"]

\* The papers of a keyword input.
KeywordPapers ==
    { Paper(<<>>, title, venue) : title \in Titles, venue \in Venues }
    \cup {NullPaper}

NoValue == [mode |-> "none"]

PureIdle == pin = NoValue /\ pout = NoValue /\ ppc = "idle"

\* The inputs before anything is built: a fan-out whose paper source
\* failed or returned a list (still empty), with every outcome of the other
\* two adapters; a pair of sources A and B for the merge, A built first;
\* the paper source's list of a keyword call.
InitPure ==
    /\ \/ \E failed \in BOOLEAN, oa \in OtherOutcomes, cr \in OtherOutcomes :
            pin = [mode |-> "fanout", ss_failed |-> failed, openalex |-> oa,
                   crossref |-> cr, data |-> <<>>, size |-> 0]
       \/ \E sa \in {"semantic_scholar", "openalex"} :
            pin = [mode |-> "pair", source_a |-> sa, first |-> <<>>,
                   second |-> FALSE, data |-> <<>>, size |-> 0]
       \/ pin = [mode |-> "keywords", data |-> <<>>, size |-> 0]
    /\ pout = NoValue
    /\ ppc = "in"
    /\ RateLimitIdle
    /\ EngineIdle

MaxSizeOf(mode) ==
    IF mode = "fanout" THEN MaxFanoutSize
    ELSE IF mode = "pair" THEN MaxPairSize
    ELSE MaxKeywordSize

CanGrow ==
    /\ ppc = "in"
    /\ pin.size < MaxSizeOf(pin.mode)
    /\ (pin.mode = "fanout" => ~pin.ss_failed)

\* The list grows by a record without papers.
AddRecord ==
    /\ CanGrow
    /\ pin' = [pin EXCEPT !.data = Append(@, AuthorRecord(<<>>, <<>>, <<>>)),
                          !.size = @ + 1]
    /\ UNCHANGED <<pout, ppc, notpure>>

\* The last record grows by a paper: without mentions for the fusion, with
\* a title and a venue for the keywords.
AddPaper ==
    /\ CanGrow
    /\ pin.data # <<>>
    /\ \E paper \in IF pin.mode = "keywords" THEN KeywordPapers
                    ELSE {Paper(<<>>, <<>>, <<>>)} :
         pin' = [pin EXCEPT !.data[Len(pin.data)].papers = Append(@, paper),
                            !.size = @ + 1]
    /\ UNCHANGED <<pout, ppc, notpure>>

\* The last paper of the last record grows by an author mention.
AddMention ==
    /\ CanGrow
    /\ pin.mode # "keywords"
    /\ pin.data # <<>>
    /\ pin.data[Len(pin.data)].papers # <<>>
    /\ \E name \in MentionNames :
         LET r == Len(pin.data)
             p == Len(pin.data[r].papers)
         IN pin' = [pin EXCEPT !.data[r].papers[p].authors = Append(@, name),
                               !.size = @ + 1]
    /\ UNCHANGED <<pout, ppc, notpure>>

\* The list built so far becomes source A of the pair; B is built next.
SecondSource ==
    /\ ppc = "in"
    /\ pin.mode = "pair" /\ ~pin.second
    /\ pin' = [pin EXCEPT !.first = pin.data, !.data = <<>>, !.second = TRUE]
    /\ UNCHANGED <<pout, ppc, notpure>>

\* The joined results of the fan-out input.
FanoutResults(in) ==
    [src \in {"semantic_scholar", "openalex", "crossref"} |->
       IF src = "semantic_scholar"
       THEN IF in.ss_failed THEN Failed ELSE Returned(in.data)
       ELSE IF src = "openalex" THEN in.openalex ELSE in.crossref]

SourceA(in) == [source |-> in.source_a, data |-> in.first, iterable |-> TRUE]

SourceB(in) ==
    [source |-> "semantic_scholar", data |-> in.data, iterable |-> TRUE]

(***************************************************************************)
(* The pure operations applied to the bounded inputs.                      *)
(***************************************************************************)
\* get_coauthors from the joined fan-out on (lines 253-272).
ApplyFanout ==
    /\ ppc = "in" /\ pin.mode = "fanout"
    /\ pout' = CoauthorsOutcome(FanoutResults(pin))
    /\ ppc' = "out"
    /\ UNCHANGED <<pin, notpure>>

\* _merge_author_data on the two sources in both orders.
ApplyMergePair ==
    /\ ppc = "in" /\ pin.mode = "pair" /\ pin.second
    /\ pout' = [ab |-> merge_author_data(<<SourceA(pin), SourceB(pin)>>),
                ba |-> merge_author_data(<<SourceB(pin), SourceA(pin)>>)]
    /\ ppc' = "out"
    /\ UNCHANGED <<pin, notpure>>

\* get_author_keywords from the adapter's list on (lines 285-303).
ApplyKeywords ==
    /\ ppc = "in" /\ pin.mode = "keywords"
    /\ pout' = KeywordsOutcome(pin.data)
    /\ ppc' = "out"
    /\ UNCHANGED <<pin, notpure>>

NextPure ==
    \/ AddRecord \/ AddPaper \/ AddMention \/ SecondSource
    \/ ApplyFanout \/ ApplyMergePair \/ ApplyKeywords

SpecPure == InitPure /\ [][NextPure]_vars

(***************************************************************************)
(* Claims about the fusion, the sort and the keyword list.                 *)
(***************************************************************************)
\* The author mentions of a list of records, paper by paper.
RECURSIVE PaperMentions(_)
PaperMentions(papers) ==
    IF papers = <<>> THEN <<>>
    ELSE Head(papers).authors \o PaperMentions(Tail(papers))

RECURSIVE RecordMentions(_)
RecordMentions(data) ==
    IF data = <<>> THEN <<>>
    ELSE PaperMentions(Head(data).papers) \o RecordMentions(Tail(data))

FanoutReturned == ppc = "out" /\ pin.mode = "fanout" /\ ~pout.raised

\* C3: the result of get_coauthors holds exactly one entry per distinct
\* normalized co-author name, and the entry's collaboration count is the
\* number of mentions of that normalized name over all papers of all
\* records of the contributing source.
C3_UpsertByNormalizedName ==
    FanoutReturned =>
        LET mentions == IF pin.ss_failed THEN <<>> ELSE RecordMentions(pin.data)
            value    == pout.value
            Key(i)   == normalize_author_name(value[i].name)
        IN /\ \A i, j \in DOMAIN value : Key(i) = Key(j) => i = j
           /\ {Key(i) : i \in DOMAIN value}
                = {normalize_author_name(mentions[k]) : k \in DOMAIN mentions}
           /\ \A i \in DOMAIN value :
                value[i].collaborations =
                    Cardinality({k \in DOMAIN mentions :
                                   normalize_author_name(mentions[k]) = Key(i)})

\* C4: the result of get_coauthors is in non-increasing order of
\* collaboration count, and entries of equal count are in the order in
\* which the fusion inserted them.
C4_SortedDescendingStable ==
    FanoutReturned =>
        LET inserted ==
                merge_author_data(CollectSources(FanoutResults(pin), 1)).coauthors
            value == pout.value
        IN /\ Len(value) = Len(inserted)
           /\ \A i, j \in DOMAIN value :
                i < j =>
                  /\ value[i].collaborations >= value[j].collaborations
                  /\ value[i].collaborations = value[j].collaborations
                       => KeyIndex(inserted, value[i].name)
                            < KeyIndex(inserted, value[j].name)

\* A result with a tie in which the sort had to move an entry.
C4_Witness ==
    /\ FanoutReturned
    /\ \E i, j \in DOMAIN pout.value :
         i < j /\ pout.value[i].collaborations = pout.value[j].collaborations
    /\ pout.value #
         FinalFormat(merge_author_data(CollectSources(FanoutResults(pin), 1)).coauthors)

\* The sum of the collaboration counts of the entries of a merged dict
\* whose normalized name is n.
RECURSIVE TotalFor(_, _)
TotalFor(coauthors, n) ==
    IF coauthors = <<>> THEN 0
    ELSE (IF normalize_author_name(Head(coauthors).name) = n
          THEN Head(coauthors).collaborations ELSE 0)
         + TotalFor(Tail(coauthors), n)

CountedEntries(coauthors) ==
    { [name |-> coauthors[i].name,
       collaborations |-> coauthors[i].collaborations] : i \in DOMAIN coauthors }

\* C6: merging [A, B] and merging [B, A] give every co-author the same
\* collaboration count: the same entries with the same counts, and so the
\* same count for every normalized name.
C6_MergeOrderIndependent ==
    (ppc = "out" /\ pin.mode = "pair") =>
        LET ab == pout.ab.coauthors
            ba == pout.ba.coauthors
        IN /\ CountedEntries(ab) = CountedEntries(ba)
           /\ \A n \in {normalize_author_name(ab[i].name) : i \in DOMAIN ab}
                       \cup {normalize_author_name(ba[i].name) : i \in DOMAIN ba} :
                TotalFor(ab, n) = TotalFor(ba, n)

\* Two sources of the paper kind that share a co-author, merged into
\* dicts of different order.
C6_Witness ==
    /\ ppc = "out" /\ pin.mode = "pair"
    /\ pin.source_a = "semantic_scholar"
    /\ pout.ab.coauthors # pout.ba.coauthors
    /\ \E i \in DOMAIN pout.ab.coauthors :
         /\ KeyIndex(merge_author_data(<<SourceA(pin)>>).coauthors,
                     pout.ab.coauthors[i].name) # 0
         /\ KeyIndex(merge_author_data(<<SourceB(pin)>>).coauthors,
                     pout.ab.coauthors[i].name) # 0

KeywordsReturned == ppc = "out" /\ pin.mode = "keywords" /\ ~pout.raised

\* C7: the list get_author_keywords returns has at most 20 entries and is
\* in non-increasing order of frequency.
C7_KeywordsTop20Sorted ==
    KeywordsReturned =>
        /\ Len(pout.value) <= TopKeywords
        /\ \A i, j \in DOMAIN pout.value :
             i < j => pout.value[i].frequency >= pout.value[j].frequency

\* More than 20 distinct words were counted, the list was cut to 20, and
\* its first entry is a word that was seen after 20 others.
C7_Witness ==
    /\ KeywordsReturned
    /\ Len(CountWords(WordsOfAuthors(pin.data))) > TopKeywords
    /\ Len(pout.value) = TopKeywords
    /\ pout.value[1].keyword = TopWord(TopKeywords + 2)
    /\ pout.value[1].frequency > pout.value[TopKeywords].frequency

(***************************************************************************)
(* Runs of the rate limiter: callers that pass the same max_calls and      *)
(* window, each call on a source of its choice, while time goes by.        *)
(***************************************************************************)
\* Calls begun in one run.
MaxRateCalls == 4

\* The last tick of a run.
MaxTime == 5

\* Largest max_calls and window (in ticks) the callers pass.
MaxMaxCalls == 2

MaxWindow == 3

InitRateLimit ==
    /\ now = 0
    /\ rate_limits = InitialRateLimits(0)
    /\ rl_max \in 1..MaxMaxCalls
    /\ rl_window \in 1..MaxWindow
    /\ rlc = [c \in Callers |-> IdleCaller]
    /\ rl_returns = [api \in Sources |-> <<>>]
    /\ rl_started = 0
    /\ PureIdle
    /\ EngineIdle

\* History: a call returned at time t, counted in the window of limit.
Return(t, limit) == [at |-> t, window |-> limit.reset_time]

\* Lines 65-74 up to the point where the call returns or goes to sleep.
RateLimitCheck(c, api) ==
    /\ rlc[c].pc = "idle"
    /\ rl_started < MaxRateCalls
    /\ rl_started' = rl_started + 1
    /\ LET limit == WindowReset(rate_limits[api], now, rl_window)
       IN IF MustSleep(limit, now, rl_max, rl_window)
          THEN /\ rate_limits' = [rate_limits EXCEPT ![api] = limit]
               /\ rlc' = [rlc EXCEPT ![c] =
                            [pc |-> "sleeping", api |-> api,
                             wake |-> now + SleepFor(limit, now, rl_window)]]
               /\ UNCHANGED rl_returns
          ELSE /\ rate_limits' = [rate_limits EXCEPT ![api] = CountCall(limit)]
               /\ rl_returns' = [rl_returns EXCEPT ![api] = Append(@, Return(now, rate_limits'[api]))]
               /\ UNCHANGED rlc
    /\ UNCHANGED <<now, rl_max, rl_window, notrl>>

\* Line 74 after the sleep of line 72 is over.
RateLimitResume(c) ==
    /\ rlc[c].pc = "sleeping"
    /\ now >= rlc[c].wake
    /\ rate_limits' = [rate_limits EXCEPT ![rlc[c].api] = CountCall(@)]
    /\ rl_returns' = [rl_returns EXCEPT ![rlc[c].api] = Append(@, Return(now, rate_limits'[rlc[c].api]))]
    /\ rlc' = [rlc EXCEPT ![c] = IdleCaller]
    /\ UNCHANGED <<now, rl_max, rl_window, rl_started, notrl>>

\* A tick goes by, up to the last tick of the run and beyond it while a
\* caller still sleeps; a sleeper whose time has come resumes before the
\* next.
Tick ==
    /\ now < MaxTime \/ \E c \in Callers : rlc[c].pc = "sleeping"
    /\ \A c \in Callers : rlc[c].pc = "sleeping" => rlc[c].wake > now
    /\ now' = now + 1
    /\ UNCHANGED <<rate_limits, rl_max, rl_window, rlc, rl_returns, rl_started,
                   notrl>>

NextRateLimit ==
    \/ \E c \in Callers, api \in CalledSources : RateLimitCheck(c, api)
    \/ \E c \in Callers : RateLimitResume(c)
    \/ Tick

SpecRateLimit == InitRateLimit /\ [][NextRateLimit]_vars

\* The runs in which time goes on and the event loop resumes a caller
\* whose sleep is over.
SpecRateLimitLive ==
    /\ SpecRateLimit
    /\ WF_vars(Tick)
    /\ \A c \in Callers : WF_vars(RateLimitResume(c))

\* C1: for every source, the calls that were let through within any
\* interval of length window are at most max_calls.
C1_RollingWindowLimit ==
    \A api \in Sources :
        \A i \in DOMAIN rl_returns[api] :
            Cardinality({j \in DOMAIN rl_returns[api] :
                           /\ j >= i
                           /\ rl_returns[api][j].at - rl_returns[api][i].at
                                  < rl_window})
                <= rl_max

(***************************************************************************)
(* Runs of the engine: invocations of get_coauthors, get_author_keywords   *)
(* and get_author_keywords_from_scholar in the slots, interleaved at their *)
(* awaits.  The clock moves with the sleep of the scholar operation only,  *)
(* and the adapters stay below their max_calls, so that no call of these   *)
(* runs sleeps in the rate limiter.                                        *)
(***************************************************************************)
InitEngine ==
    /\ EngineIdle
    /\ PureIdle
    /\ RateLimitIdle

FanoutSet == {FanoutSources[i] : i \in DOMAIN FanoutSources}

\* The record of what a cached operation gave back (history, for the
\* claims about the cache).
Remember(r, key, value) ==
    [k \in DOMAIN r \cup {key} |->
        IF k = key
        THEN [done |-> TRUE, value |-> value,
              nothing |-> key \in DOMAIN r /\ r[key].nothing]
        ELSE r[k]]

\* The record that a call of a cached operation ended with no source that
\* gave a record (history).
RememberNothing(r, key) ==
    [k \in DOMAIN r \cup {key} |->
        IF k = key
        THEN [done |-> key \in DOMAIN r /\ r[key].done,
              value |-> IF key \in DOMAIN r THEN r[key].value ELSE <<>>,
              nothing |-> TRUE]
        ELSE r[k]]

\* Lines 285-303: the adapter is awaited outside any try, so its exception
\* is the exception of get_author_keywords.
KeywordsResult(outcome) ==
    IF outcome.kind = "exception"
    THEN [raised |-> TRUE, value |-> <<>>]
    ELSE KeywordsOutcome(outcome.data)

\* Lines 331-338 without the inner try: the exception of the fallback
\* leaves the operation.
ScholarFallbackUnguarded(kw) ==
    IF kw.raised THEN [raised |-> TRUE, value |-> <<>>]
    ELSE IF kw.value # <<>>
         THEN [raised |-> FALSE, value |-> FallbackTerms(kw.value)]
         ELSE [raised |-> FALSE, value |-> <<>>]

\* Lines 327-338: what the except branch returns, given the outcome of the
\* nested get_author_keywords.
ScholarFallback(kw) ==
    IF kw.raised THEN [raised |-> FALSE, value |-> <<>>]
    ELSE IF kw.value # <<>>
         THEN [raised |-> FALSE, value |-> FallbackTerms(kw.value)]
         ELSE [raised |-> FALSE, value |-> <<>>]

\* get_coauthors has ended with outcome: the tool wraps it (server.py
\* lines 36-61), the network operation takes it up.
AfterCoauthors(slot, outcome) ==
    IF slot.op = "network"
    THEN [slot EXCEPT !.cdone = TRUE, !.cout = outcome, !.pc = "accept"]
    ELSE [slot EXCEPT !.cdone = TRUE, !.cout = outcome, !.pc = "done",
                      !.out = outcome, !.env = CoauthorsEnvelope(outcome)]

\* get_author_keywords has ended with outcome kw: the tool wraps it, the
\* scholar operation takes the terms from it.
AfterKeywords(slot, kw) ==
    [slot EXCEPT !.cdone = TRUE, !.cout = kw, !.pc = "done",
                 !.out = IF slot.op = "scholar" THEN ScholarFallback(kw) ELSE kw,
                 !.env = IF slot.op = "keywords" THEN KeywordsEnvelope(kw)
                         ELSE NoEnvelope]

\* Lines 241-252: get_coauthors(cq) is called in slot p; on a hit it
\* returns at once, on a miss the three adapters pass the rate limiter and
\* send their requests.
CallCoauthors(p, slot, cq) ==
    LET key == CoauthorsKey(cq)
        call == [slot EXCEPT !.cop = "coauthors", !.cq = cq,
                             !.cprior = PriorOf(key), !.cissued = 0,
                             !.cdone = FALSE, !.cout = NoOutcome,
                             !.fanout = "none"]
    IN IF key \in DOMAIN cache
       THEN /\ inv' = [inv EXCEPT ![p] =
                         AfterCoauthors(call, [raised |-> FALSE, value |-> cache[key]])]
            /\ returned' = Remember(returned, key, cache[key])
            /\ UNCHANGED <<cache, session, net_calls, rate_limits>>
       ELSE /\ \A i \in DOMAIN FanoutSources :
                   rate_limits[FanoutSources[i]].calls < AdapterMaxCalls
            /\ inv' = [inv EXCEPT ![p] =
                         [call EXCEPT !.pc = "gather",
                                      !.cissued = Len(FanoutSources)]]
            /\ rate_limits' = AdapterLimits(rate_limits, FanoutSet, now)
            /\ session' = SessionAfterRequest(session)
            /\ net_calls' = CountRequests(net_calls, FanoutSet)
            /\ UNCHANGED <<cache, returned>>

\* Lines 279-285: get_author_keywords(slot.q) is called in slot p.
CallKeywords(p, slot) ==
    LET key == KeywordsKey(slot.q)
        call == [slot EXCEPT !.cop = "keywords", !.cq = slot.q,
                             !.cprior = PriorOf(key), !.cissued = 0,
                             !.cdone = FALSE, !.cout = NoOutcome]
    IN IF key \in DOMAIN cache
       THEN /\ inv' = [inv EXCEPT ![p] =
                         AfterKeywords(call, [raised |-> FALSE, value |-> cache[key]])]
            /\ returned' = Remember(returned, key, cache[key])
            /\ UNCHANGED <<cache, session, net_calls, rate_limits>>
       ELSE /\ rate_limits["semantic_scholar"].calls < AdapterMaxCalls
            /\ inv' = [inv EXCEPT ![p] =
                         [call EXCEPT !.pc = "fetch", !.cissued = 1]]
            /\ rate_limits' = AdapterLimits(rate_limits, {"semantic_scholar"}, now)
            /\ session' = SessionAfterRequest(session)
            /\ net_calls' = CountRequests(net_calls, {"semantic_scholar"})
            /\ UNCHANGED <<cache, returned>>

\* A slot is free when nothing runs in it; a new invocation takes the
\* first free slot, over what the last one left there.
Free(p) == inv[p].pc \in {"idle", "done"}

CanStart(p) ==
    /\ Free(p)
    /\ \A r \in Slots : r < p => ~Free(r)
    /\ started < MaxInvocations

\* The coauthors tool is called (server.py line 36).
StartCoauthors(p, q) ==
    /\ CanStart(p)
    /\ started' = started + 1
    /\ CallCoauthors(p, [IdleSlot EXCEPT !.op = "coauthors", !.q = q], q)
    /\ UNCHANGED noteng

\* Lines 255-257 keep nothing: every adapter failed or returned no record.
NothingFound(results) ==
    \A api \in FanoutSet :
        results[api].kind = "exception" \/ results[api].data = <<>>

\* What the gather may hand over: for each adapter one of its answers.
FanoutAnswers ==
    { results \in [FanoutSet -> PaperSourceOutcomes \cup OtherOutcomes] :
        \A api \in FanoutSet : results[api] \in AdapterOutcomes(api) }

\* Lines 253-272 on each of these answers.
CoauthorsOf == [results \in FanoutAnswers |-> CoauthorsOutcome(results)]

\* Lines 285-303 on each answer of the paper source.
KeywordsOf == [outcome \in PaperSourceOutcomes |-> KeywordsResult(outcome)]

\* Lines 252-275: the gather is complete, each adapter with a list or an
\* exception; merge, format, sort, store and return.  An exception of the
\* merge leaves get_coauthors before the store.
JoinCoauthors(p) ==
    /\ inv[p].pc = "gather"
    /\ \E results \in FanoutAnswers :
         LET outcome == CoauthorsOf[results]
             key == CoauthorsKey(inv[p].cq)
             found == IF NothingFound(results) THEN "nothing" ELSE "some"
         IN /\ inv' = [inv EXCEPT ![p] =
                         AfterCoauthors([inv[p] EXCEPT !.fanout = found], outcome)]
            /\ cache' = IF outcome.raised THEN cache
                        ELSE CacheStore(cache, key, outcome.value)
            /\ returned' =
                 LET r == IF NothingFound(results)
                          THEN RememberNothing(returned, key) ELSE returned
                 IN IF outcome.raised THEN r
                    ELSE Remember(r, key, outcome.value)
    /\ UNCHANGED <<session, net_calls, started, rate_limits, noteng>>

\* The keywords tool is called (server.py line 80).
StartKeywords(p, q) ==
    /\ CanStart(p)
    /\ started' = started + 1
    /\ CallKeywords(p, [IdleSlot EXCEPT !.op = "keywords", !.q = q])
    /\ UNCHANGED noteng

\* Lines 285-306: the adapter comes back; count, cut, store and return.
KeywordsFetched(p) ==
    /\ inv[p].pc = "fetch"
    /\ \E outcome \in PaperSourceOutcomes :
         LET kw == KeywordsOf[outcome]
             key == KeywordsKey(inv[p].cq)
         IN /\ inv' = [inv EXCEPT ![p] = AfterKeywords(inv[p], kw)]
            /\ cache' = IF kw.raised THEN cache
                        ELSE CacheStore(cache, key, kw.value)
            /\ returned' =
                 LET r == IF outcome.kind = "exception" \/ outcome.data = <<>>
                          THEN RememberNothing(returned, key) ELSE returned
                 IN IF kw.raised THEN r ELSE Remember(r, key, kw.value)
    /\ UNCHANGED <<session, net_calls, started, rate_limits, noteng>>

\* What the profile page may yield: no interest, or one.
ProfileKeywords == { <<>>, << <<"m","l">> >> }

\* Lines 310-316: get_author_keywords_from_scholar is called; on a miss
\* the search request goes out.
StartScholar(p, q) ==
    /\ CanStart(p)
    /\ started' = started + 1
    /\ LET key == ScholarKey(q)
           call == [IdleSlot EXCEPT !.op = "scholar", !.q = q]
       IN IF key \in DOMAIN cache
          THEN /\ inv' = [inv EXCEPT ![p] =
                            [call EXCEPT !.pc = "done",
                                         !.out = [raised |-> FALSE,
                                                  value |-> cache[key]]]]
               /\ UNCHANGED <<session, net_calls>>
          ELSE /\ inv' = [inv EXCEPT ![p] = [call EXCEPT !.pc = "search"]]
               /\ session' = SessionAfterRequest(session)
               /\ net_calls' = CountRequests(net_calls, {"google_scholar"})
    /\ UNCHANGED <<cache, returned, rate_limits, noteng>>

\* Lines 325-331: the except branch begins, with the nested call of
\* get_author_keywords for the same name, surname and institution.
BeginFallback(p) ==
    CallKeywords(p, [inv[p] EXCEPT !.fell_back = TRUE])

\* asyncio.sleep(2), line 319.
ScholarDelay == 2

\* A sleep that returns at once.
SleepEndAtOnce(t) == t

\* The earliest time at which a sleep begun at t returns.
SleepEnd(t) == t + ScholarDelay

\* Line 316: the search step has found a profile and the operation sleeps.
SearchFound(p) ==
    /\ inv[p].pc = "search"
    /\ inv' = [inv EXCEPT ![p].pc = "delay", ![p].slept_at = now]
    /\ UNCHANGED <<cache, session, net_calls, returned, started, rate_limits,
                   noteng>>

\* Lines 316, 325: the search step raises (unreachable, status not 200, no
\* profile).
SearchFails(p) ==
    /\ inv[p].pc = "search"
    /\ BeginFallback(p)
    /\ UNCHANGED <<started, noteng>>

\* Lines 319-322: the clock has reached the end of the sleep; the sleep is
\* over and the profile request goes out.
DelayDone(p) ==
    /\ inv[p].pc = "delay"
    /\ now' = IF now < SleepEnd(inv[p].slept_at)
              THEN SleepEnd(inv[p].slept_at) ELSE now
    /\ inv' = [inv EXCEPT ![p].pc = "profile"]
    /\ net_calls' = CountRequests(net_calls, {"google_scholar"})
    /\ UNCHANGED <<cache, session, returned, started, rate_limits, pin, pout,
                   ppc, rl_max, rl_window, rlc, rl_returns, rl_started,
                   requests>>

\* Lines 322-325: the profile step returns the interests; store and return.
ProfileRead(p) ==
    /\ inv[p].pc = "profile"
    /\ \E keywords \in ProfileKeywords :
         /\ inv' = [inv EXCEPT ![p].pc = "done",
                               ![p].out = [raised |-> FALSE, value |-> keywords]]
         /\ cache' = CacheStore(cache, ScholarKey(inv[p].q), keywords)
    /\ UNCHANGED <<session, net_calls, returned, started, rate_limits, noteng>>

\* Lines 322, 325: the profile step raises.
ProfileFails(p) ==
    /\ inv[p].pc = "profile"
    /\ BeginFallback(p)
    /\ UNCHANGED <<started, noteng>>

NextEngine ==
    \/ \E p \in Slots, q \in RootQueries : StartCoauthors(p, q)
    \/ \E p \in Slots : JoinCoauthors(p)
    \/ \E p \in Slots, q \in RootQueries : StartKeywords(p, q)
    \/ \E p \in Slots : KeywordsFetched(p)
    \/ \E p \in Slots, q \in RootQueries : StartScholar(p, q)
    \/ \E p \in Slots : SearchFound(p)
    \/ \E p \in Slots : SearchFails(p)
    \/ \E p \in Slots : DelayDone(p)
    \/ \E p \in Slots : ProfileRead(p)
    \/ \E p \in Slots : ProfileFails(p)

SpecEngine == InitEngine /\ [][NextEngine]_vars

(***************************************************************************)
(* get_second_degree_network.  server.py (lines 130-141) calls this method *)
(* of the engine and reads from its result the 'second_degree' list of     *)
(* each entry; the method itself is not in search.py.  It is modelled      *)
(* here from section 4.7 of the specification: the co-authors of the root  *)
(* query, then one get_coauthors per first-degree co-author in the order   *)
(* of that list, until the running total of second-degree entries reaches  *)
(* max_connections; the list of the co-author in progress is cut to what   *)
(* is left of max_connections.                                             *)
(***************************************************************************)
\* Largest max_connections a caller passes.
MaxConnections == 2

\* The first token of the display name is the name, the rest the surname.
SplitName(display) ==
    LET parts == Split(display)
    IN [name |-> IF parts = <<>> THEN <<>> ELSE Head(parts),
        surname |-> IF parts = <<>> THEN <<>> ELSE Join(Tail(parts)),
        institution |-> <<>>, field |-> <<>>]

\* The whole list of the co-author in progress.
TakeAll(coauthors, room) == coauthors

\* The part of the list of the co-author in progress that still fits.
TakeWithin(coauthors, room) == Prefix(coauthors, room)

\* network[key] = entry
NetworkPut(network, entry) ==
    IF \E i \in DOMAIN network : network[i].key = entry.key
    THEN [i \in DOMAIN network |->
             IF network[i].key = entry.key THEN entry ELSE network[i]]
    ELSE Append(network, entry)

RECURSIVE SecondDegreeTotal(_)
\* server.py line 138: sum(len(connections["second_degree"]) ...)
SecondDegreeTotal(network) ==
    IF network = <<>> THEN 0
    ELSE Len(Head(network).second_degree) + SecondDegreeTotal(Tail(network))

\* What the transport sees of a tool that lets its exception pass.
Uncaught == [propagated |-> TRUE]

\* server.py lines 126-141 without the except of line 143.
NetworkEnvelopeUncaught(outcome) ==
    IF outcome.raised
    THEN Uncaught
    ELSE [success |-> TRUE, total |-> SecondDegreeTotal(outcome.value),
          count |-> Len(outcome.value), items |-> outcome.value]

\* server.py lines 130-149: the envelope of the network tool.
NetworkEnvelope(outcome) ==
    IF outcome.raised
    THEN [success |-> FALSE, error |-> "raised", items |-> <<>>]
    ELSE [success |-> TRUE, total |-> SecondDegreeTotal(outcome.value),
          count |-> Len(outcome.value), items |-> outcome.value]

\* The network tool is called (server.py line 130); the operation begins
\* with get_coauthors for the root query.  The calls of these runs are made
\* one after the other.
StartNetwork(p, q, max_connections) ==
    /\ CanStart(p)
    /\ \A r \in Slots : Free(r)
    /\ started' = started + 1
    /\ CallCoauthors(p, [IdleSlot EXCEPT !.op = "network", !.q = q,
                                         !.net = [NoNetwork EXCEPT
                                             !.max_connections = max_connections,
                                             !.stage = "root"]],
                     q)
    /\ UNCHANGED noteng

\* A get_coauthors of the operation has ended: its exception ends the
\* operation, and the tool (server.py lines 143-149); the root list becomes
\* the first-degree list; the list of a first-degree co-author enters the
\* network.
NetworkAccept(p) ==
    /\ inv[p].pc = "accept"
    /\ LET slot == inv[p]
           n == slot.net
           outcome == slot.cout
           first_degree == n.first[n.idx]
           second_degree == TakeWithin(outcome.value, n.max_connections - n.total)
       IN inv' = [inv EXCEPT ![p] =
             IF outcome.raised
             THEN [slot EXCEPT !.pc = "done", !.out = outcome,
                               !.env = NetworkEnvelope(outcome)]
             ELSE IF n.stage = "root"
             THEN [slot EXCEPT !.pc = "next",
                               !.net = [n EXCEPT !.stage = "loop",
                                                 !.first = outcome.value,
                                                 !.idx = 1]]
             ELSE [slot EXCEPT !.pc = "next",
                               !.net = [n EXCEPT
                                   !.network = NetworkPut(@,
                                       [key |-> normalize_author_name(first_degree.name),
                                        first_degree |-> first_degree,
                                        second_degree |-> second_degree]),
                                   !.total = @ + Len(second_degree),
                                   !.idx = @ + 1]]]
    /\ UNCHANGED <<cache, session, net_calls, returned, started, rate_limits,
                   noteng>>

\* The loop over the first-degree list: it ends when the list is through
\* or the total has reached max_connections, and the tool wraps the
\* network (server.py lines 134-141); else the next co-author is looked up.
NetworkNext(p) ==
    /\ inv[p].pc = "next"
    /\ LET slot == inv[p]
           n == slot.net
           outcome == [raised |-> FALSE, value |-> n.network]
       IN IF n.idx > Len(n.first) \/ n.total >= n.max_connections
          THEN /\ inv' = [inv EXCEPT ![p] =
                            [slot EXCEPT !.pc = "done", !.out = outcome,
                                         !.env = NetworkEnvelope(outcome)]]
               /\ UNCHANGED <<cache, session, net_calls, returned, rate_limits>>
          ELSE CallCoauthors(p, [slot EXCEPT !.net.lookups = @ + 1],
                             SplitName(n.first[n.idx].name))
    /\ UNCHANGED <<started, noteng>>

NextNetwork ==
    \/ \E p \in Slots, q \in RootQueries, max_connections \in 0..MaxConnections :
          StartNetwork(p, q, max_connections)
    \/ \E p \in Slots : JoinCoauthors(p)
    \/ \E p \in Slots : NetworkAccept(p)
    \/ \E p \in Slots : NetworkNext(p)

SpecNetwork == InitEngine /\ [][NextNetwork]_vars

(***************************************************************************)
(* The source adapters on one response: _make_request (lines 97-115) and   *)
(* the shape tests of _search_semantic_scholar, _search_openalex,          *)
(* _search_crossref and _search_arxiv.  A JSON value is                    *)
(*   [t, truthy, has, sub, items]                                          *)
(* with t its Python type, truthy its truth value, has the strings s for   *)
(* which `s in value` holds (keys of a dict, elements of a list,           *)
(* substrings of a string), sub the value under the key of a dict (a       *)
(* sequence of none or one) and items the elements of a list.              *)
(***************************************************************************)
JNull == [t |-> "null", truthy |-> FALSE, has |-> {}, sub |-> <<>>, items |-> <<>>]

JNumber(nonzero) ==
    [t |-> "number", truthy |-> nonzero, has |-> {}, sub |-> <<>>, items |-> <<>>]

JString(has) ==
    [t |-> "string", truthy |-> has # {}, has |-> has, sub |-> <<>>, items |-> <<>>]

JList(has, items) ==
    [t |-> "list", truthy |-> items # <<>>, has |-> has, sub |-> <<>>,
     items |-> items]

JEmptyDict ==
    [t |-> "dict", truthy |-> FALSE, has |-> {}, sub |-> <<>>, items |-> <<>>]

JDict(key, value) ==
    [t |-> "dict", truthy |-> TRUE, has |-> {key}, sub |-> <<value>>,
     items |-> <<>>]

\* The values without a dict inside: null, 0, 5, "", a string and a list
\* that hold the key, [] and a list of one record.
Leaves(key) ==
    { JNull, JNumber(FALSE), JNumber(TRUE), JString({}), JString({key}),
      JList({key}, <<[string |-> key]>>), JList({}, <<>>),
      JList({}, <<OtherItem>>), JEmptyDict }

\* The key of the payload each adapter reads, and the key below it.
PayloadKey(api) ==
    IF api = "semantic_scholar" THEN "data"
    ELSE IF api = "openalex" THEN "results"
    ELSE IF api = "crossref" THEN "message"
    ELSE "feed"

InnerKey == "items"

\* The bodies a source may send with status 200.
Bodies(api) ==
    Leaves(PayloadKey(api))
    \cup { JDict(PayloadKey(api), leaf) : leaf \in Leaves(InnerKey) }
    \cup { JDict(PayloadKey(api), JDict(InnerKey, leaf)) : leaf \in Leaves(InnerKey) }
    \cup { JDict("error", JNull) }

\* How a request ends: an exception of the client (timeout, TLS, other),
\* a status that is not 200, a body that is no JSON, or a JSON body.
Responses(api) ==
    { [kind |-> k, body |-> JNull] :
         k \in {"timeout", "ssl_error", "client_error", "status", "no_json"} }
    \cup { [kind |-> "json", body |-> body] : body \in Bodies(api) }

\* Lines 97-115: the JSON value of a 200 response, None otherwise (None is
\* also what the JSON value null becomes).
make_request(response) ==
    IF response.kind = "json" THEN response.body ELSE JNull

\* `key in value`: a TypeError on None, numbers and booleans.
InRaises(value) == value.t \in {"null", "number"}

\* value[key]: a TypeError unless the value is a dict.
ItemRaises(value) == value.t # "dict"

\* What an adapter hands over when it returns this value.
ReturnValue(value) ==
    IF value.t = "list" THEN Returned(value.items)
    ELSE IF value.t = "number" /\ value.truthy THEN ReturnedNumber
    ELSE [kind |-> "nonlist", data |-> <<>>]

\* Lines 124-127 (key 'data') and 139-142 (key 'results'):
\*   if data and key in data: return data[key]
\*   return []
ReadKey(data, key) ==
    IF ~data.truthy THEN Returned(<<>>)
    ELSE IF InRaises(data) THEN Failed
    ELSE IF key \notin data.has THEN Returned(<<>>)
    ELSE IF ItemRaises(data) THEN Failed
    ELSE ReturnValue(data.sub[1])

\* Lines 151-154:
\*   if data and 'message' in data and 'items' in data['message']:
\*       return data['message']['items']
\*   return []
ReadMessageItems(data) ==
    IF ~data.truthy THEN Returned(<<>>)
    ELSE IF InRaises(data) THEN Failed
    ELSE IF "message" \notin data.has THEN Returned(<<>>)
    ELSE IF ItemRaises(data) THEN Failed
    ELSE LET message == data.sub[1]
         IN IF InRaises(message) THEN Failed
            ELSE IF InnerKey \notin message.has THEN Returned(<<>>)
            ELSE IF ItemRaises(message) THEN Failed
            ELSE ReturnValue(message.sub[1])

\* Lines 166-175: the text of a 200 response, whatever it is, in a list of
\* one; the empty list otherwise.
ReadArxiv(response) ==
    IF response.kind \in {"json", "no_json"}
    THEN Returned(<<[source |-> "arxiv"]>>)
    ELSE Returned(<<>>)

\* The four adapters on the response to their request.
AdapterResult(api, response) ==
    IF api = "arxiv" THEN ReadArxiv(response)
    ELSE IF api = "crossref" THEN ReadMessageItems(make_request(response))
    ELSE ReadKey(make_request(response), PayloadKey(api))

Adapters == {"semantic_scholar", "openalex", "crossref", "arxiv"}

InitAdapter ==
    /\ \E api \in Adapters : \E response \in Responses(api) :
          pin = [mode |-> "adapter", api |-> api, response |-> response]
    /\ pout = NoValue
    /\ ppc = "in"
    /\ RateLimitIdle
    /\ EngineIdle

\* One call of an adapter: the rate limiter counts it, the session is
\* made, the request goes out and the response is read.
ApplyAdapter ==
    /\ ppc = "in"
    /\ pin.mode = "adapter"
    /\ rate_limits' = AdapterLimits(rate_limits, {pin.api}, now)
    /\ session' = SessionAfterRequest(session)
    /\ net_calls' = CountRequests(net_calls, {pin.api})
    /\ pout' = AdapterResult(pin.api, pin.response)
    /\ ppc' = "out"
    /\ UNCHANGED <<pin, now, rl_max, rl_window, rlc, rl_returns, rl_started,
                   cache, requests, returned, inv, started>>

NextAdapter == ApplyAdapter

SpecAdapter == InitAdapter /\ [][NextAdapter]_vars

(***************************************************************************)
(* One fan-out of get_coauthors, adapter by adapter: the three requests go *)
(* out, the adapters come back in any order, each with a list or an        *)
(* exception, and the gather of line 252 hands the results over.           *)
(***************************************************************************)
\* An adapter that has not come back yet.
Pending == [kind |-> "pending", data |-> <<>>]

\* gather without return_exceptions: it is over with the first exception.
GatherAborts(results) ==
    \/ \A api \in FanoutSet : results[api].kind # "pending"
    \/ \E api \in FanoutSet : results[api].kind = "exception"

\* Line 252, asyncio.gather(..., return_exceptions=True): it is over when
\* every adapter has returned or raised.
GatherDone(results) ==
    \A api \in FanoutSet : results[api].kind # "pending"

InitFanout ==
    /\ pin = [mode |-> "gather", results |-> [api \in FanoutSet |-> Pending]]
    /\ pout = NoValue
    /\ ppc = "in"
    /\ RateLimitIdle
    /\ EngineIdle

\* Lines 241-252 after a cache miss: the adapters pass the rate limiter
\* and send their requests.
StartFanout ==
    /\ ppc = "in"
    /\ pin.mode = "gather"
    /\ ppc' = "wait"
    /\ rate_limits' = AdapterLimits(rate_limits, FanoutSet, now)
    /\ session' = SessionAfterRequest(session)
    /\ net_calls' = CountRequests(net_calls, FanoutSet)
    /\ UNCHANGED <<pin, pout, now, rl_max, rl_window, rlc, rl_returns,
                   rl_started, cache, requests, returned, inv, started>>

\* One adapter comes back.
AdapterReturns(api) ==
    /\ ppc = "wait"
    /\ pin.results[api] = Pending
    /\ \E outcome \in AdapterOutcomes(api) :
         pin' = [pin EXCEPT !.results[api] = outcome]
    /\ UNCHANGED <<pout, ppc, notpure>>

\* Lines 252-272: the gather is over; the results are filtered and fused.
JoinFanout ==
    /\ ppc = "wait"
    /\ GatherDone(pin.results)
    /\ pout' = [sources |-> CollectSources(pin.results, 1),
                outcome |-> CoauthorsOutcome(pin.results)]
    /\ ppc' = "out"
    /\ UNCHANGED <<pin, notpure>>

NextFanout ==
    \/ StartFanout
    \/ \E api \in FanoutSet : AdapterReturns(api)
    \/ JoinFanout

SpecFanout == InitFanout /\ [][NextFanout]_vars

(***************************************************************************)
(* Lines 253-272 of get_coauthors on two fan-outs that agree on what the   *)
(* paper source returned and differ in what openalex and crossref          *)
(* returned: an exception, no record, a record, or what the payload held   *)
(* in place of the list.                                                   *)
(***************************************************************************)
OtherReturns == OtherOutcomes \cup {ReturnedNumber}

InitTwoFanouts ==
    /\ \E ss \in PaperSourceOutcomes :
       \E oa1 \in OtherReturns, cr1 \in OtherReturns :
       \E oa2 \in OtherReturns, cr2 \in OtherReturns :
          pin = [mode |-> "two",
                 first |-> [api \in FanoutSet |->
                              IF api = "semantic_scholar" THEN ss
                              ELSE IF api = "openalex" THEN oa1 ELSE cr1],
                 second |-> [api \in FanoutSet |->
                              IF api = "semantic_scholar" THEN ss
                              ELSE IF api = "openalex" THEN oa2 ELSE cr2]]
    /\ pout = NoValue
    /\ ppc = "in"
    /\ RateLimitIdle
    /\ EngineIdle

\* The merged profile and the result of get_coauthors for joined results.
ProfileAndResult(results) ==
    [merged |-> merge_author_data(CollectSources(results, 1)),
     outcome |-> CoauthorsOutcome(results)]

ApplyTwoFanouts ==
    /\ ppc = "in"
    /\ pin.mode = "two"
    /\ pout' = [first |-> ProfileAndResult(pin.first),
                second |-> ProfileAndResult(pin.second)]
    /\ ppc' = "out"
    /\ UNCHANGED <<pin, notpure>>

NextTwoFanouts == ApplyTwoFanouts

SpecTwoFanouts == InitTwoFanouts /\ [][NextTwoFanouts]_vars

(***************************************************************************)
(* Names for _normalize_author_name: a name x and a spelling y of it that  *)
(* differs in the case of its letters and in the amount and kind of        *)
(* whitespace before, between and behind its words, built step by step.    *)
(***************************************************************************)
\* Steps in which the two spellings are built.
MaxNameSteps == 4

NameLetters == {"a", "b"}

NameBlanks == {" ", "\t"}

UpperChar(c) ==
    IF \E i \in DOMAIN LowerAlpha : LowerAlpha[i] = c
    THEN UpperAlpha[CHOOSE i \in DOMAIN LowerAlpha : LowerAlpha[i] = c]
    ELSE c

InitNormalize ==
    /\ pin = [mode |-> "normalize", x |-> <<>>, y |-> <<>>, closed |-> FALSE,
              size |-> 0]
    /\ pout = NoValue
    /\ ppc = "in"
    /\ RateLimitIdle
    /\ EngineIdle

CanSpell ==
    /\ ppc = "in"
    /\ pin.mode = "normalize"
    /\ pin.size < MaxNameSteps

\* Both spellings go on with the same letter, each in its own case.
SpellLetter ==
    /\ CanSpell
    /\ ~pin.closed
    /\ \E c \in NameLetters, upper_x \in BOOLEAN, upper_y \in BOOLEAN :
         pin' = [pin EXCEPT
                   !.x = Append(@, IF upper_x THEN UpperChar(c) ELSE c),
                   !.y = Append(@, IF upper_y THEN UpperChar(c) ELSE c),
                   !.size = @ + 1]
    /\ UNCHANGED <<pout, ppc, notpure>>

\* Both spellings go on with whitespace, each with its own.
SpellGap ==
    /\ CanSpell
    /\ ~pin.closed
    /\ \E blank_x \in NameBlanks, blank_y \in NameBlanks :
         pin' = [pin EXCEPT !.x = Append(@, blank_x), !.y = Append(@, blank_y),
                            !.size = @ + 1]
    /\ UNCHANGED <<pout, ppc, notpure>>

\* The second spelling gets more whitespace: at its beginning, in a gap,
\* or at its end (after which no letter follows).
SpellMoreBlank ==
    /\ CanSpell
    /\ \E blank \in NameBlanks :
         pin' = [pin EXCEPT
                   !.y = Append(@, blank),
                   !.closed = @ \/ (pin.y # <<>> /\ pin.y[Len(pin.y)] \notin Whitespace),
                   !.size = @ + 1]
    /\ UNCHANGED <<pout, ppc, notpure>>

\* _normalize_author_name is applied to both spellings, and again to the
\* key of the first.
ApplyNormalize ==
    /\ ppc = "in"
    /\ pin.mode = "normalize"
    /\ pout' = [key_x |-> normalize_author_name(pin.x),
                key_y |-> normalize_author_name(pin.y),
                again |-> normalize_author_name(normalize_author_name(pin.x))]
    /\ ppc' = "out"
    /\ UNCHANGED <<pin, notpure>>

NextNormalize ==
    \/ SpellLetter
    \/ SpellGap
    \/ SpellMoreBlank
    \/ ApplyNormalize

SpecNormalize == InitNormalize /\ [][NextNormalize]_vars

(***************************************************************************)
(* Runs of the three tools of server.py together, the calls made one      *)
(* after the other.                                                        *)
(***************************************************************************)
\* No call is running.
Quiet == \A r \in Slots : Free(r)

NextTools ==
    \/ \E p \in Slots, q \in RootQueries : Quiet /\ StartCoauthors(p, q)
    \/ \E p \in Slots : JoinCoauthors(p)
    \/ \E p \in Slots, q \in RootQueries : Quiet /\ StartKeywords(p, q)
    \/ \E p \in Slots : KeywordsFetched(p)
    \/ \E p \in Slots, q \in RootQueries, max_connections \in 0..MaxConnections :
          StartNetwork(p, q, max_connections)
    \/ \E p \in Slots : NetworkAccept(p)
    \/ \E p \in Slots : NetworkNext(p)

SpecTools == InitEngine /\ [][NextTools]_vars

\* C2: a call of get_coauthors or get_author_keywords that begins after
\* an equal call (same operation, same name, surname, institution and
\* field) has returned sends no request and returns what that call
\* returned; after two such calls each adapter has been called once.
C2_CacheHitNoNewCall ==
    \A p \in Slots :
        (inv[p].cdone /\ inv[p].cprior.done) =>
            /\ inv[p].cissued = 0
            /\ ~inv[p].cout.raised
            /\ inv[p].cout.value = inv[p].cprior.value
            /\ (started = 2 => \A api \in FanoutSet : net_calls[api] <= 1)

C2_Witness ==
    \E p \in Slots :
        /\ inv[p].op = "coauthors" /\ inv[p].pc = "done"
        /\ inv[p].cprior.done /\ inv[p].cprior.value # <<>>
        /\ inv[p].out.value = inv[p].cprior.value
        /\ started = 2
        /\ \A api \in FanoutSet : net_calls[api] = 1

\* C5: when every adapter of the fan-out failed or returned no record,
\* get_coauthors returns the empty list and the tool answers with success,
\* a total of 0 and an empty list.
C5_NothingFoundIsSuccess ==
    \A p \in Slots :
        (inv[p].op = "coauthors" /\ inv[p].pc = "done"
            /\ inv[p].fanout = "nothing") =>
            /\ inv[p].out = [raised |-> FALSE, value |-> <<>>]
            /\ inv[p].env = [success |-> TRUE, total |-> 0, items |-> <<>>]

C5_Witness ==
    \E p \in Slots :
        /\ inv[p].op = "coauthors" /\ inv[p].pc = "done"
        /\ inv[p].fanout = "nothing"
        /\ inv[p].env.success

\* C8: get_author_keywords_from_scholar never ends by an exception,
\* whatever the search step, the profile step and the fallback do.
C8_ScholarNeverRaises ==
    \A p \in Slots :
        (inv[p].op = "scholar" /\ inv[p].pc = "done") => ~inv[p].out.raised

C8_Witness ==
    \E p \in Slots :
        /\ inv[p].op = "scholar" /\ inv[p].pc = "done"
        /\ inv[p].fell_back /\ inv[p].cdone /\ inv[p].cout.raised
        /\ inv[p].out = [raised |-> FALSE, value |-> <<>>]

C10_NetworkWithinMaxConnections ==
    \A p \in Slots :
        (inv[p].op = "network" /\ inv[p].pc = "done" /\ ~inv[p].out.raised) =>
            /\ SecondDegreeTotal(inv[p].out.value) <= inv[p].net.max_connections
            /\ inv[p].env.success
            /\ inv[p].env.total <= inv[p].net.max_connections
            /\ (inv[p].net.max_connections = 0 =>
                   inv[p].out.value = <<>> /\ inv[p].net.lookups = 0)

C10_Witness ==
    \E p \in Slots :
        /\ inv[p].op = "network" /\ inv[p].pc = "done" /\ ~inv[p].out.raised
        /\ inv[p].net.max_connections = 1
        /\ inv[p].net.lookups = 1
        /\ Len(inv[p].net.first) > 1
        /\ Len(inv[p].cout.value) > 1
        /\ SecondDegreeTotal(inv[p].out.value) = 1

\* The operations that server.py offers as tools.
ToolOps == {"coauthors", "keywords", "network"}

\* server.py lines 57-61, 99-103, 145-149.
ErrorEnvelope == [success |-> FALSE, error |-> "raised", items |-> <<>>]

\* C11: a tool call whose engine operation ended by an exception answers
\* with the envelope success = false, an error message and an empty
\* result; the exception does not reach the transport.  A call whose
\* operation returned answers with success = true.
C11_ToolsAnswerFailureByEnvelope ==
    \A p \in Slots :
        (inv[p].op \in ToolOps /\ inv[p].pc = "done") =>
            IF inv[p].out.raised
            THEN inv[p].env = ErrorEnvelope
            ELSE inv[p].env # Uncaught /\ inv[p].env.success

C11_Witness ==
    \E p \in Slots :
        /\ inv[p].op = "network" /\ inv[p].pc = "done"
        /\ inv[p].net.lookups >= 1
        /\ inv[p].out.raised
        /\ inv[p].env = ErrorEnvelope

\* The response carries what the adapter is there to return: status 200
\* and, for the JSON sources, a dict with a list at the place the adapter
\* reads.
WellFormed(api, response) ==
    /\ response.kind \in {"json", "no_json"}
    /\ api # "arxiv" =>
          /\ response.kind = "json"
          /\ response.body.t = "dict"
          /\ PayloadKey(api) \in response.body.has
          /\ LET value == response.body.sub[1]
             IN IF api = "crossref"
                THEN /\ value.t = "dict" /\ InnerKey \in value.has
                     /\ value.sub[1].t = "list"
                ELSE value.t = "list"

\* C12: on every response that is not well formed (client exception,
\* status other than 200, body that is no JSON or has another shape) the
\* adapter returns the empty list; it never ends by an exception.
C12_AdaptersReturnEmptyOnFailure ==
    (ppc = "out" /\ pin.mode = "adapter") =>
        /\ pout.kind # "exception"
        /\ ~WellFormed(pin.api, pin.response) => pout = Returned(<<>>)

Returns(api) == Len(rl_returns'[api]) = Len(rl_returns[api]) + 1

\* The count of api after a step in which a call on it returns: one more
\* than before, counted from 0 if the step began a new window.
CountedOnce(api) ==
    rate_limits'[api].calls =
        (IF rate_limits'[api].reset_time = rate_limits[api].reset_time
         THEN rate_limits[api].calls ELSE 0) + 1

\* C14: a call is never dropped.  A call that has to wait waits once, for
\* at most the rest of the window and at most the cap of 60 seconds, and
\* counts nothing before it wakes; a caller that sleeps is resumed, and
\* then returns without a second wait; every return raises the count of
\* its source by exactly 1.
C14_NeverDropsWaitsOnceCountsOnce ==
    /\ [][\A c \in Callers :
            /\ (rlc[c].pc = "idle" /\ rlc'[c].pc = "sleeping") =>
                  LET api == rlc'[c].api
                  IN /\ rlc'[c].wake - now <= SleepCap
                     /\ rlc'[c].wake - now
                            <= rl_window - (now - rate_limits'[api].reset_time)
                     /\ rlc'[c].wake > now
                     /\ rate_limits'[api].calls >= rl_max
                     /\ ~Returns(api)
            /\ (rlc[c].pc = "sleeping" /\ rlc'[c] # rlc[c]) =>
                  /\ rlc'[c].pc = "idle"
                  /\ now = rlc[c].wake
                  /\ Returns(rlc[c].api)]_vars
    /\ [][\A api \in Sources :
            IF Returns(api) THEN CountedOnce(api)
            ELSE rate_limits'[api].calls <= rate_limits[api].calls]_vars
    /\ \A c \in Callers : (rlc[c].pc = "sleeping") ~> (rlc[c].pc = "idle")

C14_Witness ==
    \E api \in Sources :
        /\ \A c \in Callers : rlc[c].pc = "idle"
        /\ rate_limits[api].calls = rl_max + 1
        /\ rate_limits[api].reset_time = 0
        /\ Len(rl_returns[api]) = rl_max + 1
        /\ rl_returns[api][rl_max + 1].at = SleepCap
        /\ rl_returns[api][rl_max].at = 0
        /\ rl_window > SleepCap

\* The adapters whose result is a list that is not empty.
Successful(results) ==
    { api \in FanoutSet : results[api].kind = "list" /\ results[api].data # <<>> }

\* C15: get_coauthors goes on only when all three adapters have returned
\* or raised, whatever the others did; the sources passed to the fusion
\* are exactly those with a list that is not empty, each once, in the
\* order of the task list, with the list it returned.
C15_JoinWaitsAndFiltersSources ==
    (ppc = "out" /\ pin.mode = "gather") =>
        /\ \A api \in FanoutSet : pin.results[api].kind \in {"list", "exception"}
        /\ { pout.sources[i].source : i \in DOMAIN pout.sources }
               = Successful(pin.results)
        /\ Len(pout.sources) = Cardinality(Successful(pin.results))
        /\ \A i \in DOMAIN pout.sources :
               pout.sources[i].data = pin.results[pout.sources[i].source].data
        /\ \A i, j \in DOMAIN pout.sources :
               i < j => \E k, l \in DOMAIN FanoutSources :
                           /\ k < l
                           /\ FanoutSources[k] = pout.sources[i].source
                           /\ FanoutSources[l] = pout.sources[j].source

C15_Witness ==
    /\ ppc = "out" /\ pin.mode = "gather"
    /\ pin.results["semantic_scholar"].kind = "exception"
    /\ pin.results["openalex"].data # <<>>
    /\ pin.results["crossref"] = Returned(<<>>)
    /\ Len(pout.sources) = 1
    /\ pout.sources[1].source = "openalex"
    /\ ~pout.outcome.raised

\* C16: two fan-outs in which the paper source returned the same have the
\* same merged profile (names, institutions, co-authors) and the same
\* result of get_coauthors, whatever openalex and crossref returned.
C16_OnlyPaperSourceContributes ==
    (ppc = "out" /\ pin.mode = "two") => pout.first = pout.second

(***************************************************************************)
(* The life of self.session: the context manager (__aenter__, __aexit__)   *)
(* and the requests of concurrent callers, each of which tests and, when   *)
(* it finds none, creates the session before its first await.              *)
(***************************************************************************)
MaxSessions == 3

InitSession ==
    /\ EngineIdle
    /\ PureIdle
    /\ RateLimitIdle

\* __aenter__, lines 32-53: a new ClientSession, whatever self.session held.
Enter ==
    /\ session.made < MaxSessions
    /\ session' = NewSession(session)
    /\ UNCHANGED <<cache, net_calls, returned, inv, started, rate_limits,
                   noteng>>

\* __aexit__, lines 55-57: closes the object; self.session still names it.
Exit ==
    /\ session' = IF session.id # 0
                  THEN [session EXCEPT !.closed = @ \cup {session.id}]
                  ELSE session
    /\ UNCHANGED <<cache, net_calls, returned, inv, started, rate_limits,
                   noteng>>

\* _make_request up to its first await (lines 78-98), _search_arxiv likewise
\* (lines 163-167): the session is made when there is none, and the request
\* goes out on it.
SendRequest(c) ==
    /\ requests[c] = 0
    /\ session.id # 0 \/ session.made < MaxSessions
    /\ session' = SessionAfterRequest(session)
    /\ requests' = [requests EXCEPT ![c] = session'.id]
    /\ UNCHANGED <<pin, pout, ppc, now, rate_limits, rl_max, rl_window, rlc,
                   rl_returns, rl_started, cache, net_calls, returned, inv,
                   started>>

\* The response, or the error of a closed session, comes back (lines
\* 99-115).
ReceiveResponse(c) ==
    /\ requests[c] # 0
    /\ requests' = [requests EXCEPT ![c] = 0]
    /\ UNCHANGED <<pin, pout, ppc, now, rate_limits, rl_max, rl_window, rlc,
                   rl_returns, rl_started, cache, session, net_calls, returned,
                   inv, started>>

NextSession ==
    \/ Enter
    \/ Exit
    \/ \E c \in Callers : SendRequest(c)
    \/ \E c \in Callers : ReceiveResponse(c)

SpecSession == InitSession /\ [][NextSession]_vars

\* C17: in one engine lifetime at most one session object is made, every
\* request in flight is on it, and an object is closed by __aexit__ alone.
C17_SingleSharedSession ==
    /\ [](session.made <= 1)
    /\ [](\A c \in Callers : requests[c] \in {0, 1})
    /\ [][session'.closed # session.closed => Exit]_vars

(***************************************************************************)
(* The profile step, _extract_keywords_from_profile, on a profile page:    *)
(* how the fetch went, the primary and the secondary interests container   *)
(* (absent, or present with the texts of its keyword links) and the titles *)
(* of the listed publications.                                             *)
(***************************************************************************)
MaxLinks == 2
MaxTitles == 2

\* str.strip()
Strip(s) ==
    LET keep == {i \in DOMAIN s : s[i] \notin Whitespace}
    IN IF keep = {} THEN <<>>
       ELSE SubSeq(s, CHOOSE i \in keep : \A j \in keep : i <= j,
                      CHOOSE i \in keep : \A j \in keep : j <= i)

LinkTexts == { <<"m","l">>, <<" ">>, <<" ","n","l","p","\n">> }

PageTitles == { <<"d","e","e","p"," ","n","e","t">>, <<"t","h","e">> }

SeqsUpTo(S, n) == UNION { [1..k -> S] : k \in 0..n }

NoDiv == [present |-> FALSE, links |-> <<>>]

Divs == {NoDiv} \cup { [present |-> TRUE, links |-> l] : l \in SeqsUpTo(LinkTexts, MaxLinks) }

\* The response: status 200, another status, or no response (timeout,
\* SSL or client error).
Fetches == {"ok", "status", "error"}

InitProfile ==
    /\ \E fetch \in Fetches, primary \in Divs, secondary \in Divs :
       \E titles \in SeqsUpTo(PageTitles, MaxTitles) :
          pin = [mode |-> "profile", fetch |-> fetch, primary |-> primary,
                 secondary |-> secondary, titles |-> titles]
    /\ pout = NoValue
    /\ ppc = "in"
    /\ RateLimitIdle
    /\ EngineIdle

\* Lines 462-463: the stripped texts of the keyword links that are not
\* empty.
LinkKeywords(links) ==
    LET texts == [i \in DOMAIN links |-> Strip(links[i])]
    IN SelectSeq(texts, LAMBDA t : t # <<>>)

\* Lines 443-477.
extract_keywords_from_profile(page) ==
    IF page.fetch # "ok" THEN [raised |-> TRUE, value |-> <<>>]
    ELSE LET interests_div == IF page.primary.present THEN page.primary
                              ELSE page.secondary
         IN IF ~interests_div.present THEN [raised |-> FALSE, value |-> <<>>]
            ELSE [raised |-> FALSE, value |-> LinkKeywords(interests_div.links)]

ApplyProfile ==
    /\ ppc = "in"
    /\ pin.mode = "profile"
    /\ pout' = extract_keywords_from_profile(pin)
    /\ ppc' = "out"
    /\ UNCHANGED <<pin, notpure>>

NextProfile == ApplyProfile

SpecProfile == InitProfile /\ [][NextProfile]_vars

\* The scholar operation in slot p is in its except branch or past it.
InFallback(slot) == slot.fell_back /\ slot.pc \in {"fetch", "done"}

\* One step of the scholar operation in a slot, from slot record a to b at
\* time t: search, then sleep, then profile, then done, or from search or
\* profile into the except branch.
ScholarStep(a, b, t) ==
    /\ a.pc = "search" => b.pc \in {"search", "delay"} \/ InFallback(b)
    /\ a.pc = "delay" =>
         \/ b.pc = "delay"
         \/ b.pc = "profile" /\ t >= a.slept_at + ScholarDelay
    /\ a.pc = "profile" =>
         \/ b.pc = "profile"
         \/ b.pc = "done" /\ ~b.fell_back
         \/ InFallback(b)
    /\ a.pc = "fetch" => InFallback(b)
    /\ (b.pc = "delay" /\ a.pc # "delay") => a.pc = "search"
    /\ (b.pc = "profile" /\ a.pc # "profile") => a.pc = "delay"

\* C18: get_author_keywords_from_scholar goes from the search to the sleep,
\* from the sleep to the profile fetch and from there to its end, or from
\* the search or the profile fetch into the fallback; the profile request
\* goes out only from the sleep, no earlier than ScholarDelay after the
\* search succeeded, and not at all once the search has failed.
C18_ScholarSearchDelayProfile ==
    [][/\ \A p \in Slots :
            inv[p].op = "scholar" /\ ~Free(p) => ScholarStep(inv[p], inv'[p], now')
       /\ net_calls'["google_scholar"] # net_calls["google_scholar"] =>
            \E p \in Slots :
               \/ Free(p) /\ inv'[p].pc = "search"
               \/ inv[p].pc = "delay" /\ inv'[p].pc = "profile"]_vars

C18_Witness ==
    \E p \in Slots :
       /\ inv[p].op = "scholar"
       /\ inv[p].pc = "profile"
       /\ now >= ScholarDelay
       /\ \E r \in Slots : inv[r].op = "scholar" /\ InFallback(inv[r])

\* The cache key of the cached operation a slot called last.
SlotKey(slot) ==
    IF slot.cop = "coauthors" THEN CoauthorsKey(slot.cq)
    ELSE KeywordsKey(slot.cq)

\* C19: an entry of the cache is never removed or replaced by another
\* result, and what a cached operation returned is the entry of its key,
\* so that all invocations with one key return one result, also when they
\* overlap.
C19_CacheKeepsOneResultPerKey ==
    /\ [][\A k \in DOMAIN cache : k \in DOMAIN cache' /\ cache'[k] = cache[k]]_vars
    /\ [](\A p \in Slots :
            (inv[p].cdone /\ ~inv[p].cout.raised) =>
               /\ SlotKey(inv[p]) \in DOMAIN cache
               /\ cache[SlotKey(inv[p])] = inv[p].cout.value)

\* The calls on api that returned since its window began.
ReturnedInWindow(api) ==
    {i \in DOMAIN rl_returns[api] :
        rl_returns[api][i].window = rate_limits[api].reset_time}

\* C20: the count of a source is the number of calls on it that returned
\* since its window began, whether they waited or not and however the
\* callers interleave: n calls returned in one window raise it by n.
C20_NoLostIncrement ==
    \A api \in Sources :
        rate_limits[api].calls = Cardinality(ReturnedInWindow(api))

C20_Witness ==
    \E api \in Sources :
        /\ \A c \in Callers : rlc[c].pc = "idle"
        /\ rl_max = 1
        /\ rate_limits[api].reset_time = 0
        /\ rate_limits[api].calls = 3
        /\ rl_returns[api][1].at = 0
        /\ rl_returns[api][2].at = rl_returns[api][3].at
        /\ rl_returns[api][2].at > 0

\* A call of _rate_limit_check on api begins in this step, and goes to
\* sleep in it.
SleepsOn(api) ==
    \E c \in Callers :
        rlc[c].pc = "idle" /\ rlc'[c].pc = "sleeping" /\ rlc'[c].api = api

\* A call of _rate_limit_check on api begins in this step.
BeginsOn(api) == rl_started' # rl_started /\ (Returns(api) \/ SleepsOn(api))

\* C21: a call on a source begins a new window (count 0, window start now,
\* before the call itself is counted) exactly when now is past window
\* start + window as the call begins; otherwise the window start stays;
\* the state of a source on which no call begins or returns stays.
C21_ResetExactlyWhenWindowOver ==
    [][\A api \in Sources :
          /\ BeginsOn(api) =>
                IF now > rate_limits[api].reset_time + rl_window
                THEN /\ rate_limits'[api].reset_time = now
                     /\ rate_limits'[api].calls = (IF Returns(api) THEN 1 ELSE 0)
                ELSE rate_limits'[api].reset_time = rate_limits[api].reset_time
          /\ (~BeginsOn(api) /\ ~Returns(api)) =>
                rate_limits'[api] = rate_limits[api]
          /\ (~BeginsOn(api) /\ Returns(api)) =>
                rate_limits'[api].reset_time = rate_limits[api].reset_time]_vars

C21_Witness ==
    \E api \in Sources, other \in Sources :
        /\ other # api
        /\ rate_limits[api].reset_time = now
        /\ now > rl_window
        /\ rate_limits[api].calls = 1
        /\ Len(rl_returns[api]) > 1
        /\ rate_limits[other].reset_time = 0
        /\ rate_limits[other].calls >= 1

\* The words of the titles that a count of title words would keep.
TitleCandidates(titles) ==
    { w \in UNION { {Split(Lower(titles[i]))[k] :
                        k \in DOMAIN Split(Lower(titles[i]))} :
                    i \in DOMAIN titles } : KeepWord(w) }

\* C22: a profile page that was fetched and holds neither interests
\* container yields keywords taken from the titles of its publications:
\* with a title word to take, the result is not empty and its keywords are
\* words of the titles.
C22_KeywordsFromTitlesWithoutContainer ==
    (/\ ppc = "out" /\ pin.mode = "profile"
     /\ pin.fetch = "ok"
     /\ ~pin.primary.present /\ ~pin.secondary.present
     /\ TitleCandidates(pin.titles) # {}) =>
        /\ ~pout.raised
        /\ pout.value # <<>>
        /\ \A i \in DOMAIN pout.value : pout.value[i] \in TitleCandidates(pin.titles)

\* C23: once a call of get_coauthors or get_author_keywords has ended with
\* every source failed or without a record, every call with the same
\* operation and query that begins later sends no request and returns the
\* empty list, whatever the sources would answer now.
C23_EmptyResultIsCached ==
    \A p \in Slots :
        (inv[p].cdone /\ inv[p].cprior.nothing) =>
            /\ inv[p].cissued = 0
            /\ inv[p].cout = [raised |-> FALSE, value |-> <<>>]

\* The entry of the scholar operation for query q is written in this step.
ScholarEntryWritten(q) ==
    /\ ScholarKey(q) \in DOMAIN cache'
    /\ ScholarKey(q) \in DOMAIN cache => cache'[ScholarKey(q)] # cache[ScholarKey(q)]

\* C24: the entry of get_author_keywords_from_scholar is written only by
\* the step in which the profile step of a call with that query succeeds
\* (after its search step), with what that call returns, never by a call
\* that took the fallback; a call that finds no entry sends the search
\* request.
C24_ScholarEntryOnlyOnSuccess ==
    [][/\ \A q \in RootQueries :
            ScholarEntryWritten(q) =>
               \E p \in Slots :
                  /\ inv[p].op = "scholar" /\ inv[p].q = q
                  /\ inv[p].pc = "profile" /\ inv'[p].pc = "done"
                  /\ ~inv'[p].fell_back
                  /\ inv'[p].out = [raised |-> FALSE,
                                    value |-> cache'[ScholarKey(q)]]
       /\ \A p \in Slots :
            (/\ started' # started
             /\ inv'[p] # inv[p]
             /\ inv'[p].op = "scholar"
             /\ ScholarKey(inv'[p].q) \notin DOMAIN cache) =>
               /\ inv'[p].pc = "search"
               /\ net_calls'["google_scholar"] = net_calls["google_scholar"] + 1]_vars

C24_Witness ==
    \E p \in Slots :
        /\ inv[p].op = "scholar" /\ inv[p].pc = "search"
        /\ started = 2
        /\ net_calls["google_scholar"] >= 2
        /\ KeywordsKey(inv[p].q) \in DOMAIN cache
        /\ ScholarKey(inv[p].q) \notin DOMAIN cache
        /\ \A r \in Slots : r # p => inv[r].pc = "idle"

====
